---- MODULE Spec2Model ----
(***************************************************************************)
(* lev: AWS lambda env manager.  A model of src/src/main.rs and            *)
(* src/src/error.rs: the extractor env, the merges of set and unset, the   *)
(* two-stage call chain get -> update_function_configuration, and main's   *)
(* rendering and exit.                                                     *)
(***************************************************************************)
EXTENDS Integers, Sequences, FiniteSets, TLC

VARIABLES
    remote,      \* function name -> FunctionConfiguration held by the remote side
    anyResponse, \* TRUE: the replace response may carry any snapshot
    opts,        \* invocation -> parsed Options (one process each)
    pc,          \* invocation -> position in main
    current,     \* invocation -> Env extracted from the fetch response
    updated,     \* invocation -> Env computed by the merge, sent in the replace call
    result,      \* invocation -> value of `result` in main
    stdout,      \* invocation -> lines printed by render
    stderr,      \* invocation -> causes printed by main
    exitcode,    \* invocation -> process exit status
    log,         \* remote calls issued, in the order the remote side served them
    margs,       \* inputs of the pure functions (merge development)
    mret         \* outputs of the pure functions, in application order

vars == <<remote, anyResponse, opts, pc, current, updated, result, stdout,
          stderr, exitcode, log, margs, mret>>

protoVars == <<remote, anyResponse, opts, pc, current, updated, result, stdout,
               stderr, exitcode, log>>

\* ------------------------------------------------------------------ bounds
MaxVars == 1      \* longest vars / names list of an invocation under Spec
MaxConcLen == 1   \* longest vars / names list of an invocation under SpecConc
MaxLen == 3       \* longest pair / name sequence given to a merge under SpecMerge
MaxApply == 2     \* times a merge is re-applied to its own output under SpecMerge
MaxArg == 3       \* longest command-line argument given to parse_key_val

\* ---------------------------------------------------------------- universes
Keys == {"a", "b"}
Vals == {"x", "y"}
Functions == {"f", "g"}
Procs == {"p1", "p2"}
RemoteErrs == {"e1", "e2"}
Chars == {"=", "k", "v"}     \* a command-line argument is a sequence of these

SeqsUpTo(S, n) == UNION {[1..k -> S] : k \in 0..n}

\* Option<T>
None == <<>>
Some(x) == <<x>>

\* type Env = HashMap<String, String>
EmptyEnv == [k \in {} |-> "x"]
Envs == UNION {[D -> Vals] : D \in SUBSET Keys}

\* rusoto_lambda::FunctionConfiguration, of which only `environment` is read
EnvironmentResponses ==
    {[variables |-> None]} \cup {[variables |-> Some(m)] : m \in Envs}
FunctionConfigurations ==
    {[environment |-> None]} \cup
    {[environment |-> Some(b)] : b \in EnvironmentResponses}

\* ------------------------------------------------------------ pure functions

\* mutant of env: the block's variable list is dropped
envDropsVariables(conf) == EmptyEnv

\* fn env(conf: FunctionConfiguration) -> Env
env(conf) ==
    IF conf.environment = None
    THEN EmptyEnv                                   \* unwrap_or_default()
    ELSE IF conf.environment[1].variables = None
         THEN EmptyEnv                              \* variables.unwrap_or_default()
         ELSE conf.environment[1].variables[1]

\* mutant of Insert: a key already present keeps its value (entry().or_insert())
InsertKeepsExisting(m, k, v) ==
    [x \in (DOMAIN m) \cup {k} |-> IF x \in DOMAIN m THEN m[x] ELSE v]

\* HashMap::insert
Insert(m, k, v) ==
    [x \in (DOMAIN m) \cup {k} |-> IF x = k THEN v ELSE m[x]]

\* Iterator::collect::<HashMap<_, _>>(): inserts the pairs in iteration order
RECURSIVE CollectFrom(_, _)
CollectFrom(m, pairs) ==
    IF pairs = <<>> THEN m
    ELSE CollectFrom(Insert(m, pairs[1][1], pairs[1][2]), Tail(pairs))

Collect(pairs) == CollectFrom(EmptyEnv, pairs)

\* HashMap::into_iter(): every pair once, in an unspecified order
IntoIter(m) ==
    {s \in [1..Cardinality(DOMAIN m) -> {<<k, m[k]>> : k \in DOMAIN m}] :
        \A i, j \in DOMAIN s : i # j => s[i] # s[j]}

\* Iterator::chain
Chain(s, t) == s \o t

\* Vec::contains
Contains(names, k) == \E i \in DOMAIN names : names[i] = k

\* mutant of FilterNotIn: only the first named pair met is dropped
RECURSIVE FilterFirstNamed(_, _)
FilterFirstNamed(pairs, names) ==
    IF pairs = <<>> THEN <<>>
    ELSE IF ~Contains(names, pairs[1][1])
         THEN <<pairs[1]>> \o FilterFirstNamed(Tail(pairs), names)
         ELSE Tail(pairs)

\* Iterator::filter(|(k, _)| !names.contains(k))
RECURSIVE FilterNotIn(_, _)
FilterNotIn(pairs, names) ==
    IF pairs = <<>> THEN <<>>
    ELSE IF ~Contains(names, pairs[1][1])
         THEN <<pairs[1]>> \o FilterNotIn(Tail(pairs), names)
         ELSE FilterNotIn(Tail(pairs), names)

\* mutant of SetUpdated: the chain is built the other way round, so the fetched
\* value of a key wins over the assigned one
SetUpdatedVarsFirst(iter, pairs) == Collect(Chain(pairs, iter))

\* mutant of SetUpdated: the fetched mapping is left out of the payload
SetUpdatedOnlyVars(iter, pairs) == Collect(pairs)

\* set: let updated = current.into_iter().chain(vars).collect();
\* `iter` is the order current.into_iter() yields
SetUpdated(iter, pairs) == Collect(Chain(iter, pairs))

\* mutant of UnsetUpdated: the filter's negation is lost, the named keys are kept
UnsetUpdatedKeepsNamed(iter, names) ==
    Collect(SelectSeq(iter, LAMBDA kv : Contains(names, kv[1])))

\* unset: let updated = current.into_iter().filter(..).collect();
UnsetUpdated(iter, names) == Collect(FilterNotIn(iter, names))

\* impl From<RusotoError<GetFunctionConfigurationError>> for Error
FromGetError(e) == [tag |-> "GetConfig", cause |-> e]

\* mutant of FromUpdateError: both failure kinds collapsed into one tag
FromUpdateErrorAsGetConfig(e) == [tag |-> "GetConfig", cause |-> e]

\* impl From<RusotoError<UpdateFunctionConfigurationError>> for Error
FromUpdateError(e) == [tag |-> "UpdateConfig", cause |-> e]

\* mutant of Find: the position of the last match (str::rfind)
FindLast(s, c) ==
    IF \E i \in DOMAIN s : s[i] = c
    THEN Some((CHOOSE i \in DOMAIN s :
                 s[i] = c /\ \A j \in DOMAIN s : s[j] = c => j <= i) - 1)
    ELSE None

\* str::find: the 0-based position of the first match, if any
Find(s, c) ==
    IF \E i \in DOMAIN s : s[i] = c
    THEN Some((CHOOSE i \in DOMAIN s :
                 s[i] = c /\ \A j \in DOMAIN s : s[j] = c => i <= j) - 1)
    ELSE None

\* fn parse_key_val(s: &str) -> Result<(T, U), Box<Error>>, with T = U = String
\* (String::from_str returns its argument)
parse_key_val(s) ==
    LET pos == Find(s, "=")
    IN IF pos = None
       THEN [tag |-> "Err", name |-> <<>>, value |-> <<>>, msg |-> s]  \* ok_or_else(..)?
       ELSE [tag |-> "Ok",
             name |-> SubSeq(s, 1, pos[1]),                  \* s[..pos]
             value |-> SubSeq(s, pos[1] + 2, Len(s)),        \* s[pos + 1..]
             msg |-> <<>>]

\* ------------------------------------------------------------- invocations

\* enum Options { Get { function }, Set { function, vars }, Unset { function, names } }
GetOptions(fs) ==
    {[cmd |-> "get", function |-> f, vars |-> <<>>, names |-> <<>>] : f \in fs}
SetOptions(fs, n) ==
    {[cmd |-> "set", function |-> f, vars |-> v, names |-> <<>>] :
        f \in fs, v \in SeqsUpTo(Keys \X Vals, n)}
UnsetOptions(fs, n) ==
    {[cmd |-> "unset", function |-> f, vars |-> <<>>, names |-> s] :
        f \in fs, s \in SeqsUpTo(Keys, n)}

\* a process that is not started
NotInvoked == [cmd |-> "none", function |-> "f", vars |-> <<>>, names |-> <<>>]

\* Result<Env, Error> held by `result` in main
NoResult == [tag |-> "None", env |-> EmptyEnv, cause |-> "-"]
Ok(m) == [tag |-> "Ok", env |-> m, cause |-> "-"]
Err(e) == [tag |-> e.tag, env |-> EmptyEnv, cause |-> e.cause]

\* ------------------------------------------------------------- remote side

\* GetFunctionConfigurationRequest { function_name, .. }
GetFunctionConfigurationRequest(function) ==
    [call |-> "get_function_configuration", function_name |-> function,
     environment |-> None]

\* mutant of UpdateFunctionConfigurationRequest: function_name is a fixed name,
\* not the identifier given to the operation
UpdateRequestFixedName(function, upd) ==
    [call |-> "update_function_configuration", function_name |-> "g",
     environment |-> Some([variables |-> Some(upd)])]

\* UpdateFunctionConfigurationRequest { function_name, environment: Some(Environment
\*   { variables: Some(updated) }), .. }
UpdateFunctionConfigurationRequest(function, upd) ==
    [call |-> "update_function_configuration", function_name |-> function,
     environment |-> Some([variables |-> Some(upd)])]

\* the configuration the remote side holds after serving a replace request:
\* the request's environment block replaces the stored one whole
Stored(req) == [environment |-> req.environment]

\* the snapshots a successful replace call may answer with
UpdateResponses(req) ==
    IF anyResponse THEN FunctionConfigurations ELSE {Stored(req)}

\* one served call, as the remote side saw it: the request, "ok" or the remote
\* error it answered with, and the snapshot it answered with
Served(o, req, outcome, resp) ==
    [proc |-> o, call |-> req.call, function_name |-> req.function_name,
     environment |-> req.environment, outcome |-> outcome, response |-> resp]

NoResponse == [environment |-> None]

\* ------------------------------------------------------------------- main

\* fn render(env: Env): one line per pair, in the map's iteration order
render(iter) == [i \in DOMAIN iter |-> <<iter[i][1], "=", iter[i][2]>>]

\* mutant of Finish: the `if let Err` block prints the causes and falls through,
\* the process ends with status 0
FinishWithoutExit(o, res, iter) ==
    /\ result' = [result EXCEPT ![o] = res]
    /\ stdout' = [stdout EXCEPT ![o] = IF res.tag = "Ok" THEN render(iter) ELSE <<>>]
    /\ stderr' = [stderr EXCEPT ![o] = IF res.tag = "Ok" THEN <<>> ELSE <<res.cause>>]
    /\ exitcode' = [exitcode EXCEPT ![o] = 0]
    /\ pc' = [pc EXCEPT ![o] = "exited"]

\* main, lines 156-178, once block_on has returned res: .map(render) ran on Ok,
\* on Err the causes are printed and the process exits with status 1
Finish(o, res, iter) ==
    /\ result' = [result EXCEPT ![o] = res]
    /\ stdout' = [stdout EXCEPT ![o] = IF res.tag = "Ok" THEN render(iter) ELSE <<>>]
    /\ stderr' = [stderr EXCEPT ![o] = IF res.tag = "Ok" THEN <<>> ELSE <<res.cause>>]
    /\ exitcode' = [exitcode EXCEPT ![o] = IF res.tag = "Ok" THEN 0 ELSE 1]
    /\ pc' = [pc EXCEPT ![o] = "exited"]

\* mutant of GetOk: the read path writes the extracted mapping back
GetOkWritesBack(o) ==
    /\ pc[o] = "start" /\ opts[o].cmd = "get"
    /\ LET req == GetFunctionConfigurationRequest(opts[o].function)
           conf == remote[req.function_name]
           upd == UpdateFunctionConfigurationRequest(opts[o].function, env(conf))
       IN /\ log' = log \o <<Served(o, req, "ok", conf), Served(o, upd, "ok", Stored(upd))>>
          /\ remote' = [remote EXCEPT ![req.function_name] = Stored(upd)]
          /\ \E iter \in IntoIter(env(conf)) : Finish(o, Ok(env(conf)), iter)
    /\ UNCHANGED <<anyResponse, opts, current, updated, margs, mret>>

\* Options::Get: get(lambda_client(), function).map_err(Error::from).map(render)
GetOk(o) ==
    /\ pc[o] = "start" /\ opts[o].cmd = "get"
    /\ LET req == GetFunctionConfigurationRequest(opts[o].function)
           conf == remote[req.function_name]
       IN /\ log' = Append(log, Served(o, req, "ok", conf))
          /\ \E iter \in IntoIter(env(conf)) : Finish(o, Ok(env(conf)), iter)
    /\ UNCHANGED <<remote, anyResponse, opts, current, updated, margs, mret>>

GetErr(o) ==
    /\ pc[o] = "start" /\ opts[o].cmd = "get"
    /\ LET req == GetFunctionConfigurationRequest(opts[o].function)
       IN \E e \in RemoteErrs :
            /\ log' = Append(log, Served(o, req, e, NoResponse))
            /\ Finish(o, Err(FromGetError(e)), <<>>)
    /\ UNCHANGED <<remote, anyResponse, opts, current, updated, margs, mret>>

\* mutant of FetchOk: when the merge changes nothing the replace call is skipped
\* and the fetched mapping is returned
FetchOkSkipsNoop(o, cmd) ==
    /\ pc[o] = "start" /\ opts[o].cmd = cmd
    /\ LET req == GetFunctionConfigurationRequest(opts[o].function)
           conf == remote[req.function_name]
       IN /\ log' = Append(log, Served(o, req, "ok", conf))
          /\ current' = [current EXCEPT ![o] = env(conf)]
          /\ \E iter \in IntoIter(env(conf)) :
               LET upd == IF cmd = "set" THEN SetUpdated(iter, opts[o].vars)
                          ELSE UnsetUpdated(iter, opts[o].names)
               IN /\ updated' = [updated EXCEPT ![o] = upd]
                  /\ IF upd = env(conf)
                     THEN Finish(o, Ok(env(conf)), iter)
                     ELSE /\ pc' = [pc EXCEPT ![o] = "update"]
                          /\ UNCHANGED <<result, stdout, stderr, exitcode>>
    /\ UNCHANGED <<remote, anyResponse, opts, margs, mret>>

\* set / unset, stage 1 succeeded: get(..) resolved, the and_then closure computed
\* `updated` and issued update_function_configuration
FetchOk(o, cmd) ==
    /\ pc[o] = "start" /\ opts[o].cmd = cmd
    /\ LET req == GetFunctionConfigurationRequest(opts[o].function)
           conf == remote[req.function_name]
       IN /\ log' = Append(log, Served(o, req, "ok", conf))
          /\ current' = [current EXCEPT ![o] = env(conf)]
          /\ \E iter \in IntoIter(env(conf)) :
                updated' = [updated EXCEPT ![o] =
                               IF cmd = "set"
                               THEN SetUpdated(iter, opts[o].vars)
                               ELSE UnsetUpdated(iter, opts[o].names)]
    /\ pc' = [pc EXCEPT ![o] = "update"]
    /\ UNCHANGED <<remote, anyResponse, opts, result, stdout, stderr, exitcode,
                   margs, mret>>

\* mutant of FetchErr: the fetch error is swallowed (unwrap_or_default on the
\* fetch result) and the replace call is issued from an empty mapping
FetchErrContinues(o, cmd) ==
    /\ pc[o] = "start" /\ opts[o].cmd = cmd
    /\ LET req == GetFunctionConfigurationRequest(opts[o].function)
       IN \E e \in RemoteErrs : log' = Append(log, Served(o, req, e, NoResponse))
    /\ current' = [current EXCEPT ![o] = EmptyEnv]
    /\ updated' = [updated EXCEPT ![o] =
                      IF cmd = "set" THEN SetUpdated(<<>>, opts[o].vars)
                      ELSE UnsetUpdated(<<>>, opts[o].names)]
    /\ pc' = [pc EXCEPT ![o] = "update"]
    /\ UNCHANGED <<remote, anyResponse, opts, result, stdout, stderr, exitcode,
                   margs, mret>>

\* set / unset, stage 1 failed: .map_err(Error::from), and_then is skipped
FetchErr(o, cmd) ==
    /\ pc[o] = "start" /\ opts[o].cmd = cmd
    /\ LET req == GetFunctionConfigurationRequest(opts[o].function)
       IN \E e \in RemoteErrs :
            /\ log' = Append(log, Served(o, req, e, NoResponse))
            /\ Finish(o, Err(FromGetError(e)), <<>>)
    /\ UNCHANGED <<remote, anyResponse, opts, current, updated, margs, mret>>

\* mutant of UpdateOk: the mapping that was sent is returned, the response is
\* not read
UpdateOkEchoesPayload(o, cmd) ==
    /\ pc[o] = "update" /\ opts[o].cmd = cmd
    /\ LET req == UpdateFunctionConfigurationRequest(opts[o].function, updated[o])
       IN /\ remote' = [remote EXCEPT ![req.function_name] = Stored(req)]
          /\ \E resp \in UpdateResponses(req) :
                /\ log' = Append(log, Served(o, req, "ok", resp))
                /\ \E iter \in IntoIter(updated[o]) : Finish(o, Ok(updated[o]), iter)
    /\ UNCHANGED <<anyResponse, opts, current, updated, margs, mret>>

\* mutant of UpdateOk: the merge is redone on the mapping the remote side holds
\* when the replace call is served (an atomic read-modify-write)
UpdateOkMergesFresh(o, cmd) ==
    /\ pc[o] = "update" /\ opts[o].cmd = cmd
    /\ \E it \in IntoIter(env(remote[opts[o].function])) :
        LET fresh == IF cmd = "set" THEN SetUpdated(it, opts[o].vars)
                     ELSE UnsetUpdated(it, opts[o].names)
            req == UpdateFunctionConfigurationRequest(opts[o].function, fresh)
        IN /\ remote' = [remote EXCEPT ![req.function_name] = Stored(req)]
           /\ \E resp \in UpdateResponses(req) :
                 /\ log' = Append(log, Served(o, req, "ok", resp))
                 /\ \E iter \in IntoIter(env(resp)) : Finish(o, Ok(env(resp)), iter)
    /\ UNCHANGED <<anyResponse, opts, current, updated, margs, mret>>

\* set / unset, stage 2 succeeded: .map(env) on the replace response
UpdateOk(o, cmd) ==
    /\ pc[o] = "update" /\ opts[o].cmd = cmd
    /\ LET req == UpdateFunctionConfigurationRequest(opts[o].function, updated[o])
       IN /\ remote' = [remote EXCEPT ![req.function_name] = Stored(req)]
          /\ \E resp \in UpdateResponses(req) :
                /\ log' = Append(log, Served(o, req, "ok", resp))
                /\ \E iter \in IntoIter(env(resp)) : Finish(o, Ok(env(resp)), iter)
    /\ UNCHANGED <<anyResponse, opts, current, updated, margs, mret>>

\* mutant of UpdateErr: a failed replace call is reported as success with the
\* fetched mapping
UpdateErrReturnsFetched(o, cmd) ==
    /\ pc[o] = "update" /\ opts[o].cmd = cmd
    /\ LET req == UpdateFunctionConfigurationRequest(opts[o].function, updated[o])
       IN \E e \in RemoteErrs :
            /\ log' = Append(log, Served(o, req, e, NoResponse))
            /\ \E iter \in IntoIter(current[o]) : Finish(o, Ok(current[o]), iter)
    /\ UNCHANGED <<remote, anyResponse, opts, current, updated, margs, mret>>

\* mutant of UpdateErr: a failed replace call is tried once more
UpdateErrRetries(o, cmd) ==
    /\ pc[o] = "update" /\ opts[o].cmd = cmd
    /\ LET req == UpdateFunctionConfigurationRequest(opts[o].function, updated[o])
           tried == \E i \in DOMAIN log : log[i].proc = o /\ log[i].call = req.call
       IN \E e \in RemoteErrs :
            /\ log' = Append(log, Served(o, req, e, NoResponse))
            /\ IF tried THEN Finish(o, Err(FromUpdateError(e)), <<>>)
               ELSE UNCHANGED <<result, stdout, stderr, exitcode, pc>>
    /\ UNCHANGED <<remote, anyResponse, opts, current, updated, margs, mret>>

\* set / unset, stage 2 failed: .map_err(Error::from)
UpdateErr(o, cmd) ==
    /\ pc[o] = "update" /\ opts[o].cmd = cmd
    /\ LET req == UpdateFunctionConfigurationRequest(opts[o].function, updated[o])
       IN \E e \in RemoteErrs :
            /\ log' = Append(log, Served(o, req, e, NoResponse))
            /\ Finish(o, Err(FromUpdateError(e)), <<>>)
    /\ UNCHANGED <<remote, anyResponse, opts, current, updated, margs, mret>>

\* fn set: lines 79-103
SetFetchOk(o) == FetchOk(o, "set")
SetFetchErr(o) == FetchErr(o, "set")
SetUpdateOk(o) == UpdateOk(o, "set")
SetUpdateErr(o) == UpdateErr(o, "set")

\* fn unset: lines 105-132
UnsetFetchOk(o) == FetchOk(o, "unset")
UnsetFetchErr(o) == FetchErr(o, "unset")
UnsetUpdateOk(o) == UpdateOk(o, "unset")
UnsetUpdateErr(o) == UpdateErr(o, "unset")

\* ----------------------------------------------------------- specifications

NoMergeArgs == [fn |-> "none", m |-> EmptyEnv, p |-> <<>>, n |-> <<>>,
                conf |-> NoResponse, s |-> <<>>]

InitProcs ==
    /\ pc = [p \in Procs |-> IF opts[p].cmd = "none" THEN "idle" ELSE "start"]
    /\ current = [p \in Procs |-> EmptyEnv]
    /\ updated = [p \in Procs |-> EmptyEnv]
    /\ result = [p \in Procs |-> NoResult]
    /\ stdout = [p \in Procs |-> <<>>]
    /\ stderr = [p \in Procs |-> <<>>]
    /\ exitcode = [p \in Procs |-> 0]
    /\ log = <<>>

\* one invocation of the tool against a remote side in any state
Init ==
    /\ remote \in [Functions -> FunctionConfigurations]
    /\ anyResponse \in BOOLEAN
    /\ \E op \in GetOptions(Functions) \cup SetOptions(Functions, MaxVars)
                    \cup UnsetOptions(Functions, MaxVars) :
          opts = [p \in Procs |-> IF p = "p1" THEN op ELSE NotInvoked]
    /\ InitProcs
    /\ margs = NoMergeArgs
    /\ mret = <<>>

Next ==
    \E o \in Procs :
        \/ GetOk(o)
        \/ GetErr(o)
        \/ SetFetchOk(o)
        \/ SetFetchErr(o)
        \/ SetUpdateOk(o)
        \/ SetUpdateErr(o)
        \/ UnsetFetchOk(o)
        \/ UnsetFetchErr(o)
        \/ UnsetUpdateOk(o)
        \/ UnsetUpdateErr(o)

Spec == Init /\ [][Next]_vars

\* the steps of invocation o
Step(o) ==
    \/ GetOk(o) \/ GetErr(o)
    \/ SetFetchOk(o) \/ SetFetchErr(o) \/ SetUpdateOk(o) \/ SetUpdateErr(o)
    \/ UnsetFetchOk(o) \/ UnsetFetchErr(o) \/ UnsetUpdateOk(o) \/ UnsetUpdateErr(o)

\* Spec with every remote call returning: block_on drives the future of an
\* invocation for as long as it has a step to take
FairSpec == Init /\ [][Next]_vars /\ \A o \in Procs : WF_vars(Step(o))

\* two invocations of set / unset running at once against a remote side that
\* answers a replace call with what it stored
InitConc ==
    /\ \E m \in UNION {[D -> {"x"}] : D \in SUBSET Keys} :
          remote = [f \in Functions |-> [environment |-> Some([variables |-> Some(m)])]]
    /\ anyResponse = FALSE
    /\ opts \in [Procs -> GetOptions({"f"}) \cup SetOptions({"f"}, MaxConcLen)
                            \cup UnsetOptions({"f"}, MaxConcLen)]
    /\ InitProcs
    /\ margs = NoMergeArgs
    /\ mret = <<>>

SpecConc == InitConc /\ [][Next]_vars

\* the pure functions alone, on every input within the bounds
MergeArgs ==
    {[fn |-> "set", m |-> m, p |-> p, n |-> <<>>, conf |-> NoResponse, s |-> <<>>] :
        m \in Envs, p \in SeqsUpTo(Keys \X Vals, MaxLen)}
    \cup
    {[fn |-> "unset", m |-> m, p |-> <<>>, n |-> n, conf |-> NoResponse, s |-> <<>>] :
        m \in Envs, n \in SeqsUpTo(Keys, MaxLen)}
    \cup
    {[fn |-> "env", m |-> EmptyEnv, p |-> <<>>, n |-> <<>>, conf |-> c, s |-> <<>>] :
        c \in FunctionConfigurations}
    \cup
    {[fn |-> "parse_key_val", m |-> EmptyEnv, p |-> <<>>, n |-> <<>>,
      conf |-> NoResponse, s |-> a] : a \in SeqsUpTo(Chars, MaxArg)}

InitMerge ==
    /\ margs \in MergeArgs
    /\ mret = <<>>
    /\ remote = [f \in Functions |-> NoResponse]
    /\ anyResponse = FALSE
    /\ opts = [p \in Procs |-> NotInvoked]
    /\ InitProcs

\* the mapping the next application of a merge starts from
MergeInput == IF mret = <<>> THEN margs.m ELSE mret[Len(mret)]

\* current.into_iter().chain(vars).collect(), applied to its own output again
ApplySet ==
    /\ margs.fn = "set" /\ Len(mret) < MaxApply
    /\ \E iter \in IntoIter(MergeInput) :
          mret' = Append(mret, SetUpdated(iter, margs.p))
    /\ UNCHANGED <<margs, protoVars>>

\* current.into_iter().filter(..).collect(), applied to its own output again
ApplyUnset ==
    /\ margs.fn = "unset" /\ Len(mret) < MaxApply
    /\ \E iter \in IntoIter(MergeInput) :
          mret' = Append(mret, UnsetUpdated(iter, margs.n))
    /\ UNCHANGED <<margs, protoVars>>

\* env(conf)
ApplyEnv ==
    /\ margs.fn = "env" /\ mret = <<>>
    /\ mret' = <<env(margs.conf)>>
    /\ UNCHANGED <<margs, protoVars>>

\* parse_key_val(s)
ApplyParse ==
    /\ margs.fn = "parse_key_val" /\ mret = <<>>
    /\ mret' = <<parse_key_val(margs.s)>>
    /\ UNCHANGED <<margs, protoVars>>

NextMerge == ApplySet \/ ApplyUnset \/ ApplyEnv \/ ApplyParse

SpecMerge == InitMerge /\ [][NextMerge]_vars

\* ------------------------------------------------------------------ claims

GetCall == "get_function_configuration"
UpdateCall == "update_function_configuration"
Mutating(o) == opts[o].cmd \in {"set", "unset"}

\* what the merges are required to produce, stated without the code's operators
AssignedKeys(p) == {p[i][1] : i \in DOMAIN p}
LastValue(p, k) ==
    p[CHOOSE i \in DOMAIN p :
        /\ p[i][1] = k
        /\ \A j \in DOMAIN p : p[j][1] = k => j <= i][2]
IsAssignOf(out, m, p) ==
    /\ DOMAIN out = (DOMAIN m) \cup AssignedKeys(p)
    /\ \A k \in AssignedKeys(p) : out[k] = LastValue(p, k)
    /\ \A k \in (DOMAIN m) \ AssignedKeys(p) : out[k] = m[k]
RemovedKeys(n) == {n[i] : i \in DOMAIN n}
IsRemoveOf(out, m, n) ==
    /\ DOMAIN out = (DOMAIN m) \ RemovedKeys(n)
    /\ \A k \in DOMAIN out : out[k] = m[k]
IsMergeOf(out, m, opt) ==
    IF opt.cmd = "set" THEN IsAssignOf(out, m, opt.vars)
    ELSE IsRemoveOf(out, m, opt.names)

FetchFailedAt(o, i) ==
    log[i].proc = o /\ log[i].call = GetCall /\ log[i].outcome # "ok"
FetchedAt(o, i) ==
    log[i].proc = o /\ log[i].call = GetCall /\ log[i].outcome = "ok"
UpdateAt(o, i) == log[i].proc = o /\ log[i].call = UpdateCall

\* C1: in a set or unset operation whose fetch call failed, the operation has
\* ended with Error::GetConfig carrying the remote error of that call, and the
\* operation has issued no update_function_configuration call.
C1_FetchFailureSkipsWrite ==
    \A o \in Procs : Mutating(o) =>
        \A i \in DOMAIN log : FetchFailedAt(o, i) =>
            /\ pc[o] = "exited"
            /\ result[o].tag = "GetConfig"
            /\ result[o].cause = log[i].outcome
            /\ \A j \in DOMAIN log : ~UpdateAt(o, j)

C1_Witness ==
    \E o \in Procs : Mutating(o) /\ opts[o].vars # <<>> /\ pc[o] = "exited"
        /\ \E i \in DOMAIN log : FetchFailedAt(o, i) /\ log[i].outcome = "e2"

\* C2: in a set or unset operation whose fetch succeeded and whose replace call
\* failed, the operation has ended with Error::UpdateConfig (not GetConfig)
\* carrying the replace call's error, and it issues no remote call after it.
C2_WriteFailureTagged ==
    \A o \in Procs : Mutating(o) =>
        \A i \in DOMAIN log :
            (UpdateAt(o, i) /\ log[i].outcome # "ok"
                /\ \E j \in 1..(i - 1) : FetchedAt(o, j)) =>
            /\ pc[o] = "exited"
            /\ result[o].tag = "UpdateConfig"
            /\ result[o].tag # "GetConfig"
            /\ result[o].cause = log[i].outcome
            /\ \A j \in DOMAIN log : j > i => log[j].proc # o

C2_Witness ==
    \E o \in Procs : Mutating(o) /\ result[o].tag = "UpdateConfig"
        /\ result[o].cause = "e2"
        /\ \E i \in DOMAIN log : UpdateAt(o, i) /\ log[i].outcome = "e2"
        /\ \E j \in DOMAIN log : FetchedAt(o, j)

\* C3: every replace call of a set or unset operation follows a successful
\* fetch of the same operation, is the operation's only replace call, and sends
\* as its whole environment block merge(env(fetch response), request): keys of
\* the fetched mapping the request does not touch are sent with their fetched
\* value.
C3_PayloadIsMergeOfFetched ==
    \A o \in Procs : Mutating(o) =>
        \A i \in DOMAIN log : UpdateAt(o, i) =>
            /\ \A j \in DOMAIN log : UpdateAt(o, j) => j = i
            /\ log[i].environment # None
            /\ log[i].environment[1].variables # None
            /\ \E j \in 1..(i - 1) :
                  /\ FetchedAt(o, j)
                  /\ IsMergeOf(log[i].environment[1].variables[1],
                               env(log[j].response), opts[o])

C3_Witness ==
    \E o \in Procs : Mutating(o) /\ opts[o].vars \o opts[o].names # <<>>
        /\ \E i \in DOMAIN log : UpdateAt(o, i)
            /\ \E j \in 1..(i - 1) : FetchedAt(o, j)
                /\ \E k \in DOMAIN env(log[j].response) :
                      /\ k \notin AssignedKeys(opts[o].vars)
                      /\ k \notin RemovedKeys(opts[o].names)
                      /\ k \in DOMAIN log[i].environment[1].variables[1]
                      /\ log[i].environment[1].variables[1][k] = "y"

\* C6: a set or unset operation that succeeded returns, and renders, the
\* extraction of the snapshot its replace call answered with, also when that
\* snapshot carries another mapping than the payload that was sent.
C6_ResultIsReplaceResponse ==
    \A o \in Procs : (Mutating(o) /\ result[o].tag = "Ok") =>
        \E i \in DOMAIN log :
            /\ UpdateAt(o, i) /\ log[i].outcome = "ok"
            /\ result[o].env = env(log[i].response)
            /\ \E iter \in IntoIter(env(log[i].response)) : stdout[o] = render(iter)

C6_Witness ==
    \E o \in Procs : Mutating(o) /\ result[o].tag = "Ok"
        /\ result[o].env # updated[o]
        /\ result[o].env # EmptyEnv
        /\ \E i \in DOMAIN log :
              /\ UpdateAt(o, i)
              /\ log[i].environment[1].variables[1] = updated[o]
              /\ env(log[i].response) = result[o].env

\* the calls invocation o has issued
CallsOf(o) == SelectSeq(log, LAMBDA c : c.proc = o)

C7_GetCalls ==
    \A o \in Procs : opts[o].cmd = "get" =>
        /\ Len(CallsOf(o)) <= 1
        /\ \A i \in DOMAIN log : ~UpdateAt(o, i)
        /\ pc[o] = "exited" =>
              /\ Len(CallsOf(o)) = 1
              /\ CallsOf(o)[1].call = GetCall
              /\ CallsOf(o)[1].function_name = opts[o].function
              /\ CallsOf(o)[1].outcome = "ok" =>
                    /\ result[o].tag = "Ok"
                    /\ result[o].env = env(CallsOf(o)[1].response)
              /\ CallsOf(o)[1].outcome # "ok" =>
                    /\ result[o].tag = "GetConfig"
                    /\ result[o].cause = CallsOf(o)[1].outcome

C7_GetStep ==
    \A o \in Procs :
        (opts[o].cmd = "get" /\ pc[o] # pc'[o]) => remote' = remote

\* C7: a get operation issues exactly one fetch call and no replace call, and
\* leaves the remote mapping as it was; on success its result is the extraction
\* of the fetched snapshot, on failure it is Error::GetConfig with the fetch
\* call's error.
C7_GetReadsOnly == []C7_GetCalls /\ [][C7_GetStep]_vars

C7_Witness ==
    \E o \in Procs : opts[o].cmd = "get" /\ pc[o] = "exited"
        /\ result[o].tag = "Ok" /\ result[o].env # EmptyEnv
        /\ env(remote[opts[o].function]) = result[o].env

\* the mapping's entry for key k: <<value>>, or <<>> when k is absent
Entry(m, k) == IF k \in DOMAIN m THEN <<m[k]>> ELSE <<>>

\* w1 and w2 both fetched function f before either wrote it, then both wrote
\* it successfully, w1 first; g2 is w2's fetch, u1 w1's replace call
BothFetchThenWrite(w1, w2, g2, u1) ==
    /\ w1 # w2 /\ Mutating(w1) /\ Mutating(w2)
    /\ opts[w1].function = opts[w2].function
    /\ FetchedAt(w2, g2) /\ UpdateAt(w1, u1) /\ log[u1].outcome = "ok"
    /\ g2 < u1
    /\ \E g1 \in 1..(u1 - 1) : FetchedAt(w1, g1)
    /\ \E u2 \in DOMAIN log : u1 < u2 /\ UpdateAt(w2, u2) /\ log[u2].outcome = "ok"

\* C8: when two set / unset operations on one function both fetch before
\* either writes and both writes succeed, both operations succeed and the
\* remote mapping ends as the second writer's merge of the mapping fetched
\* before the first write: the second write is neither refused nor rebased on
\* the first writer's change.
C8_SecondWriteIgnoresFirst ==
    \A w1, w2 \in Procs : \A g2, u1 \in DOMAIN log :
        BothFetchThenWrite(w1, w2, g2, u1) =>
            /\ result[w1].tag = "Ok" /\ result[w2].tag = "Ok"
            /\ IsMergeOf(env(remote[opts[w2].function]),
                         env(log[g2].response), opts[w2])

\* the lost update: a key that w1's write changed is back to what it was
C8_Witness ==
    \E w1, w2 \in Procs : \E g2, u1 \in DOMAIN log :
        /\ BothFetchThenWrite(w1, w2, g2, u1)
        /\ result[w1].tag = "Ok" /\ result[w2].tag = "Ok"
        /\ \E k \in Keys :
              /\ Entry(log[u1].environment[1].variables[1], k)
                    # Entry(env(log[g2].response), k)
              /\ Entry(env(remote[opts[w2].function]), k)
                    = Entry(env(log[g2].response), k)
        /\ env(remote[opts[w2].function]) # env(log[g2].response)

\* C4: the set merge of a mapping m with a pair sequence p holds, for every key
\* occurring in p, the value of the last pair of p with that key, holds m's
\* value for every key of m not occurring in p, and has no other key (p may
\* repeat keys and may be empty).
C4_SetMergeLastWriteWins ==
    (margs.fn = "set" /\ mret # <<>>) => IsAssignOf(mret[1], margs.m, margs.p)

C4_Witness ==
    /\ margs.fn = "set" /\ mret # <<>>
    /\ \E i, j \in DOMAIN margs.p :
          i < j /\ margs.p[i][1] = margs.p[j][1] /\ margs.p[i][2] # margs.p[j][2]
          /\ margs.p[i][1] \in DOMAIN margs.m
          /\ mret[1][margs.p[i][1]] # margs.m[margs.p[i][1]]
    /\ \E k \in DOMAIN margs.m : k \notin AssignedKeys(margs.p) /\ k \in DOMAIN mret[1]

\* C5: the unset merge of a mapping m with a name sequence n contains no key
\* occurring in n and agrees with m on every key not occurring in n (n may name
\* keys absent from m, may repeat names and may be empty).
C5_UnsetMergeRemovesNamed ==
    (margs.fn = "unset" /\ mret # <<>>) =>
        /\ \A i \in DOMAIN margs.n : margs.n[i] \notin DOMAIN mret[1]
        /\ \A k \in Keys \ RemovedKeys(margs.n) :
              /\ k \in DOMAIN mret[1] <=> k \in DOMAIN margs.m
              /\ k \in DOMAIN margs.m => mret[1][k] = margs.m[k]

C5_Witness ==
    /\ margs.fn = "unset" /\ mret # <<>>
    /\ \E i, j \in DOMAIN margs.n :
          i < j /\ margs.n[i] = margs.n[j] /\ margs.n[i] \in DOMAIN margs.m
    /\ \E i \in DOMAIN margs.n : margs.n[i] \notin DOMAIN margs.m
    /\ mret[1] = EmptyEnv

\* C9: env returns the empty mapping for a snapshot without an environment
\* block and for one whose block has no variable list, and returns the variable
\* list itself, unchanged, when the block has one.
C9_EnvTotal ==
    (margs.fn = "env" /\ mret # <<>>) =>
        /\ mret[1] \in Envs
        /\ margs.conf \in {[environment |-> None],
                           [environment |-> Some([variables |-> None])]}
              => mret[1] = EmptyEnv
        /\ \A m \in Envs :
              margs.conf = [environment |-> Some([variables |-> Some(m)])]
                 => mret[1] = m

C9_Witness ==
    /\ margs.fn = "env" /\ mret # <<>>
    /\ margs.conf.environment # None
    /\ margs.conf.environment[1].variables # None
    /\ Cardinality(DOMAIN mret[1]) = Cardinality(Keys)

\* C10: both merges are idempotent: applying the set merge with the same pairs
\* (the unset merge with the same names) to its own output gives that output.
C10_MergesIdempotent ==
    (margs.fn \in {"set", "unset"}) =>
        \A i \in DOMAIN mret : mret[i] = mret[1]

C10_Witness ==
    /\ margs.fn \in {"set", "unset"} /\ Len(mret) >= 2
    /\ mret[1] # margs.m

\* the calls of kind c invocation o has issued
CallsOfKind(o, c) == SelectSeq(log, LAMBDA x : x.proc = o /\ x.call = c)

\* C11: a set or unset operation issues its replace call only after its own
\* fetch call returned successfully, and makes one attempt per stage: never more
\* than one fetch call and one replace call, and exactly one fetch call once it
\* has ended, whatever the outcomes.
C11_OneAttemptPerStage ==
    \A o \in Procs : Mutating(o) =>
        /\ Len(CallsOfKind(o, GetCall)) <= 1
        /\ Len(CallsOfKind(o, UpdateCall)) <= 1
        /\ pc[o] # "start" => Len(CallsOfKind(o, GetCall)) = 1
        /\ pc[o] = "update" => Len(CallsOfKind(o, UpdateCall)) = 0
        /\ \A i \in DOMAIN log : UpdateAt(o, i) =>
              \E j \in 1..(i - 1) : FetchedAt(o, j)

C11_Witness ==
    \E o \in Procs : Mutating(o) /\ pc[o] = "exited"
        /\ Len(CallsOf(o)) = 2
        /\ CallsOf(o)[1].call = GetCall /\ CallsOf(o)[1].outcome = "ok"
        /\ CallsOf(o)[2].call = UpdateCall /\ CallsOf(o)[2].outcome = "e1"

\* invocation o has been answered a remote error
FailedCall(o) == \E i \in DOMAIN log : log[i].proc = o /\ log[i].outcome # "ok"

\* C12: KEY=VALUE lines are rendered only for an operation that succeeded.  A
\* get, set or unset that failed at either stage has rendered nothing, has
\* printed the error's cause and has exited with status 1; one that succeeded
\* has rendered its result, printed no cause and not taken the failure exit.
C12_RenderOnlyOnSuccess ==
    \A o \in Procs :
        /\ stdout[o] # <<>> => (pc[o] = "exited" /\ result[o].tag = "Ok")
        /\ (pc[o] = "exited" /\ FailedCall(o)) =>
              /\ result[o].tag \in {"GetConfig", "UpdateConfig"}
              /\ stdout[o] = <<>>
              /\ \E i \in DOMAIN log :
                    log[i].proc = o /\ stderr[o] = <<log[i].outcome>>
              /\ exitcode[o] = 1
        /\ (pc[o] = "exited" /\ ~FailedCall(o)) =>
              /\ result[o].tag = "Ok"
              /\ Len(stdout[o]) = Cardinality(DOMAIN result[o].env)
              /\ \A k \in DOMAIN result[o].env :
                    \E i \in DOMAIN stdout[o] :
                        stdout[o][i] = <<k, "=", result[o].env[k]>>
              /\ stderr[o] = <<>>
              /\ exitcode[o] = 0

C12_Witness ==
    \E o \in Procs : pc[o] = "exited" /\ opts[o].cmd = "unset"
        /\ result[o].tag = "UpdateConfig" /\ current[o] # EmptyEnv
        /\ stdout[o] = <<>> /\ stderr[o] = <<"e1">> /\ exitcode[o] = 1

\* the three outcomes of a set or unset operation
Succeeded(o) ==
    /\ result[o].tag = "Ok"
    /\ \E j \in DOMAIN log : FetchedAt(o, j)
    /\ \E i \in DOMAIN log : UpdateAt(o, i) /\ log[i].outcome = "ok"
FetchFailure(o) ==
    /\ result[o].tag = "GetConfig"
    /\ \E j \in DOMAIN log : FetchFailedAt(o, j)
    /\ \A i \in DOMAIN log : ~UpdateAt(o, i)
WriteFailure(o) ==
    /\ result[o].tag = "UpdateConfig"
    /\ \E j \in DOMAIN log : FetchedAt(o, j)
    /\ \E i \in DOMAIN log : UpdateAt(o, i) /\ log[i].outcome # "ok"
OneOutcome(o) ==
    /\ pc[o] = "exited"
    /\ Cardinality({b \in {<<1, Succeeded(o)>>, <<2, FetchFailure(o)>>,
                           <<3, WriteFailure(o)>>} : b[2]}) = 1

\* C13: with every remote call returning, a set or unset operation ends, and
\* it ends in exactly one of: success (fetch and replace both succeeded),
\* Error::GetConfig (the fetch failed, no replace call), Error::UpdateConfig
\* (the fetch succeeded, the replace call failed).
C13_EndsInOneOutcome ==
    /\ \A o \in Procs : (Mutating(o) /\ pc[o] = "start") ~> OneOutcome(o)
    /\ [](\A o \in Procs : (Mutating(o) /\ pc[o] = "exited") => OneOutcome(o))

C13_Witness ==
    \E o \in Procs : Mutating(o) /\ OneOutcome(o) /\ WriteFailure(o)
        /\ opts[o].cmd = "set" /\ result[o].cause = "e2" /\ current[o] # updated[o]

C14_CallsNameTheFunction ==
    \A i \in DOMAIN log : log[i].function_name = opts[log[i].proc].function

C14_StepWritesOwnFunction ==
    \A f \in Functions : remote'[f] # remote[f] =>
        \E o \in Procs :
            /\ Mutating(o) /\ opts[o].function = f
            /\ pc[o] = "update" /\ pc'[o] = "exited"

\* C14: the fetch call and the replace call of a set or unset operation both
\* name the function given to the operation, and a step changes the remote
\* configuration of a function only when it is the replace call of an
\* operation on that function: every other function's mapping is left as it
\* was.
C14_OnlyOwnFunction == []C14_CallsNameTheFunction /\ [][C14_StepWritesOwnFunction]_vars

C14_Witness ==
    \E o \in Procs : Mutating(o) /\ opts[o].function = "f" /\ result[o].tag = "Ok"
        /\ Len(CallsOf(o)) = 2
        /\ env(remote["f"]) = updated[o] /\ updated[o] # current[o]
        /\ env(remote["g"]) # EmptyEnv /\ env(remote["g"]) # updated[o]

\* w1 and w2 ran one after the other on one function and both succeeded: w1's
\* fetch g1 and replace call came before w2's fetch, w2's replace call is u2
Serialized(w1, w2, g1, u2) ==
    /\ w1 # w2 /\ Mutating(w1) /\ Mutating(w2)
    /\ opts[w1].function = opts[w2].function
    /\ FetchedAt(w1, g1) /\ UpdateAt(w2, u2) /\ log[u2].outcome = "ok"
    /\ \E u1, g2 \in DOMAIN log :
          /\ g1 < u1 /\ u1 < g2 /\ g2 < u2
          /\ UpdateAt(w1, u1) /\ log[u1].outcome = "ok"
          /\ FetchedAt(w2, g2)

\* C15: when two set / unset operations on one function are serialized (the
\* first one's replace call is served before the second one's fetch), both
\* succeed, and the remote side stores each payload as sent, the remote mapping
\* ends as the second request's merge of the first request's merge of the
\* mapping the first operation fetched: no update is lost.
C15_SerializedKeepsBoth ==
    \A w1, w2 \in Procs : \A g1, u2 \in DOMAIN log :
        Serialized(w1, w2, g1, u2) =>
            \E mid \in Envs :
                /\ IsMergeOf(mid, env(log[g1].response), opts[w1])
                /\ IsMergeOf(env(remote[opts[w2].function]), mid, opts[w2])

C15_Witness ==
    \E w1, w2 \in Procs : \E g1, u2 \in DOMAIN log :
        /\ Serialized(w1, w2, g1, u2)
        /\ result[w1].tag = "Ok" /\ result[w2].tag = "Ok"
        /\ opts[w1].cmd = "set" /\ opts[w2].cmd = "set"
        /\ \E k1, k2 \in Keys :
              /\ k1 # k2
              /\ k1 \in AssignedKeys(opts[w1].vars)
              /\ k2 \in AssignedKeys(opts[w2].vars)
              /\ Entry(env(log[g1].response), k1) # Entry(env(remote[opts[w2].function]), k1)
              /\ Entry(env(log[g1].response), k2) # Entry(env(remote[opts[w2].function]), k2)
              /\ Entry(current[w2], k1) = Entry(env(remote[opts[w2].function]), k1)

\* C16: a set or unset operation whose fetch succeeded issues the replace call
\* whether or not the merge changed the fetched mapping: after a successful
\* fetch the operation is at its replace call or has made it, and at its
\* replace call both a failure with Error::UpdateConfig and a successful write
\* are possible.
C16_NoShortCircuit ==
    \A o \in Procs : Mutating(o) =>
        /\ (\E j \in DOMAIN log : FetchedAt(o, j)) =>
              (pc[o] = "update" \/ \E i \in DOMAIN log : UpdateAt(o, i))
        /\ pc[o] = "update" =>
              /\ ENABLED UpdateErr(o, opts[o].cmd)
              /\ ENABLED UpdateOk(o, opts[o].cmd)

\* a no-op operation w2 (its payload is the mapping it fetched) wrote after w1
\* and put back what w1 had changed
C16_Witness ==
    \E w1, w2 \in Procs : \E g2, u1 \in DOMAIN log :
        /\ BothFetchThenWrite(w1, w2, g2, u1)
        /\ updated[w2] = current[w2]
        /\ log[u1].environment[1].variables[1] # env(log[g2].response)
        /\ env(remote[opts[w2].function]) = current[w2]
        /\ result[w2].tag = "Ok"

\* C17: parse_key_val splits its argument at the first '=': when the argument
\* holds a '=', the result is the pair (name, value) with name the text before
\* the first '=' (so without '=', possibly empty) and value all the text after
\* it (possibly empty, possibly holding '='); when it holds none, the result is
\* an error and no pair.
C17_SplitsAtFirstEquals ==
    (margs.fn = "parse_key_val" /\ mret # <<>>) =>
        IF \E i \in DOMAIN margs.s : margs.s[i] = "="
        THEN /\ mret[1].tag = "Ok"
             /\ mret[1].name \o <<"=">> \o mret[1].value = margs.s
             /\ \A i \in DOMAIN mret[1].name : mret[1].name[i] # "="
        ELSE /\ mret[1].tag = "Err"
             /\ mret[1].name = <<>> /\ mret[1].value = <<>>

C17_Witness ==
    /\ margs.fn = "parse_key_val" /\ mret # <<>>
    /\ mret[1].tag = "Ok" /\ mret[1].name # <<>>
    /\ \E i \in DOMAIN mret[1].value : mret[1].value[i] = "="

====
